---- MODULE Spec2Model ----
(***************************************************************************)
(* crier: a message is sent over a direct TCP connection or relayed        *)
(* through an MQTT broker, and the listener runs a command template on     *)
(* receipt.  One process performs one operation (src/main.rs, main):       *)
(* direct_listen, direct_send, relay_listen or relay_send.                 *)
(*                                                                         *)
(* Text is a sequence of one-character strings.  The characters that the   *)
(* code treats specially have names: "LF" (\n), "CR" (\r), "SP" (space),   *)
(* "xFF" (a byte that is not valid UTF-8) and "uFFFD" (the replacement     *)
(* character).  An Option<T> is a sequence of length at most one.          *)
(***************************************************************************)
EXTENDS Naturals, Sequences, FiniteSets

\* ------------------------------------------------------------------ bounds
MaxConns == 2
MaxEvents == 2
MaxTime == 7

\* Duration::from_secs(5) in relay_send
Timeout == 5

\* ------------------------------------------------------------- text helpers
None == << >>
Some(x) == << x >>

LF == "LF"
CR == "CR"
Whitespace == {"SP", "LF", "CR"}

\* the literal "AUTH:" of the format! calls
AuthPrefix == << "A", "U", "T", "H", ":" >>
OkLine == << "O", "K" >>
ErrAuthLine == << "E", "R", "R", ":", "A", "U", "T", "H" >>

IsValidUtf8(bytes) == \A i \in 1..Len(bytes) : bytes[i] # "xFF"

\* String::from_utf8_lossy: every invalid byte becomes U+FFFD
Utf8Lossy(bytes) == [i \in 1..Len(bytes) |-> IF bytes[i] = "xFF" THEN "uFFFD" ELSE bytes[i]]

StartsWith(s, p) == Len(p) <= Len(s) /\ SubSeq(s, 1, Len(p)) = p

\* str::strip_prefix: Some(rest) when s starts with p, None otherwise
StripPrefix(s, p) == IF StartsWith(s, p) THEN Some(SubSeq(s, Len(p) + 1, Len(s))) ELSE None

\* a replace that stops after the first placeholder (str::replacen(.., 1))
RECURSIVE ReplaceFirst(_, _)
ReplaceFirst(template, message) ==
    IF Len(template) < 2 THEN template
    ELSE IF template[1] = "{" /\ template[2] = "}"
         THEN message \o SubSeq(template, 3, Len(template))
         ELSE << template[1] >> \o ReplaceFirst(Tail(template), message)

\* str::replace("{}", message): left to right, non-overlapping, one pass
RECURSIVE Replace(_, _)
Replace(template, message) ==
    IF Len(template) < 2 THEN template
    ELSE IF template[1] = "{" /\ template[2] = "}"
         THEN message \o Replace(SubSeq(template, 3, Len(template)), message)
         ELSE << template[1] >> \o Replace(Tail(template), message)

\* str::trim: leading and trailing whitespace removed
RECURSIVE TrimStart(_)
TrimStart(s) == IF s # << >> /\ s[1] \in Whitespace THEN TrimStart(Tail(s)) ELSE s

RECURSIVE TrimEnd(_)
TrimEnd(s) == IF s # << >> /\ s[Len(s)] \in Whitespace THEN TrimEnd(SubSeq(s, 1, Len(s) - 1)) ELSE s

Trim(s) == TrimEnd(TrimStart(s))

\* index of the first LF of bytes, 0 when there is none
RECURSIVE FirstLF(_, _)
FirstLF(bytes, i) ==
    IF i > Len(bytes) THEN 0
    ELSE IF bytes[i] = LF THEN i ELSE FirstLF(bytes, i + 1)

\* one item of BufRead::lines: the terminating LF and a CR before it are
\* removed; a line that is not valid UTF-8 is an Err item
LineItem(seg) ==
    LET noLF == IF seg # << >> /\ seg[Len(seg)] = LF THEN SubSeq(seg, 1, Len(seg) - 1) ELSE seg
        line == IF Len(noLF) < Len(seg) /\ noLF # << >> /\ noLF[Len(noLF)] = CR
                THEN SubSeq(noLF, 1, Len(noLF) - 1) ELSE noLF
    IN  IF IsValidUtf8(seg) THEN [ok |-> TRUE, line |-> line] ELSE [ok |-> FALSE, line |-> << >>]

\* BufReader::lines over a stream that ends with EOF after bytes
RECURSIVE Lines(_)
Lines(bytes) ==
    IF bytes = << >> THEN << >>
    ELSE LET n == FirstLF(bytes, 1)
         IN  IF n = 0 THEN << LineItem(bytes) >>
             ELSE << LineItem(SubSeq(bytes, 1, n)) >> \o Lines(SubSeq(bytes, n + 1, Len(bytes)))

\* BufRead::read_line: the bytes up to and including the first LF (or up to
\* EOF), Err when they are not valid UTF-8
ReadLine(bytes) ==
    LET n == FirstLF(bytes, 1)
        seg == IF n = 0 THEN bytes ELSE SubSeq(bytes, 1, n)
    IN  IF IsValidUtf8(seg) THEN [ok |-> TRUE, line |-> seg] ELSE [ok |-> FALSE, line |-> << >>]

\* ------------------------------------------------------------ wire formats
\* direct_send: writeln!("AUTH:{}") when a token is given, then writeln!(message)
DirectEncode(a, message) ==
    (IF a # None THEN AuthPrefix \o a[1] \o << LF >> ELSE << >>) \o message \o << LF >>

\* relay_send: format!("AUTH:{}:{}", a, message) or the message itself
RelayEncode(a, message) ==
    IF a # None THEN AuthPrefix \o a[1] \o << ":" >> \o message ELSE message

\* ------------------------------------------------------------------ inputs
\* auth tokens a user may configure (--auth); one holds a colon
Tokens == { << "s" >>, << "s", ":" >> }
AuthOpts == {None} \cup {Some(t) : t \in Tokens}

\* messages a sender may be given (--message of send): Rust strings, so
\* valid UTF-8; none holds an LF
Messages == { << "a" >>, << "a", CR >>, << "a", ":", "b" >>, AuthPrefix \o << "s" >> }

\* command templates a listener may be given (--message of listen)
Templates == { << "e", "{", "}" >>, << "{", "}", "{", "}" >> }

\* what a peer that is not crier's sender may write to a TCP connection
RawStreams ==
    { << >>,
      AuthPrefix \o << "s" >>,
      AuthPrefix \o << "s", CR, LF, "a", LF >>,
      AuthPrefix \o << "s", LF, "xFF", LF >>,
      AuthPrefix \o << "s", LF, "a", LF, "b", LF >>,
      << "xFF", LF, "a", LF >> }

DirectStreams == RawStreams \cup {DirectEncode(a, m) : a \in AuthOpts, m \in Messages}

\* payloads some client may publish on the topic
RawPayloads ==
    { << >>,
      AuthPrefix \o << "s" >>,
      AuthPrefix \o << "w", ":", "a" >>,
      AuthPrefix \o << "s", ":", "xFF" >> }

RelayPayloads == RawPayloads \cup {RelayEncode(a, m) : a \in AuthOpts, m \in Messages}

\* the ways a Command::status() call ends
Outcomes == {"success", "failure", "launch_failed"}

\* what the rumqttc event stream yields to relay_listen
ListenEventKinds == {"publish", "other", "err"}

\* what the rumqttc event stream yields to relay_send
SendEventKinds == {"outgoing_publish", "connack", "other", "err"}

\* what the listener's end may send back to direct_send's read_line
Replies ==
    { OkLine \o << LF >>,
      OkLine,
      OkLine \o << CR, LF >>,
      << "SP" >> \o OkLine \o << LF >>,
      ErrAuthLine \o << LF >>,
      << >>,
      << "O", LF >>,
      << "xFF", LF >> }

\* ------------------------------------------------------------------- state
VARIABLES
    op,       \* the operation main selected
    auth,     \* Option: the --auth token of this process
    text,     \* the command template (listen) or the message (send)
    pc,       \* where the process is
    exit,     \* Option: the exit status once the process has ended
    report,   \* the outcome the process printed last
    backlog,  \* direct_listen: connections waiting in the OS accept queue
    conns,    \* direct_listen: the accepted connections, in accept order
    events,   \* relay_listen: the events taken off the stream, in order
    wire,     \* send: Option, the bytes written or published
    reply,    \* direct_send: Option, the result of read_line
    polled,   \* relay_send: the events the stream yielded, with their time
    clock,    \* relay_send: seconds since Instant::now()
    ran,      \* listen: the commands handed to run_command, in order
    accept_errors,  \* direct_listen: the Err items listener.incoming() yielded
    args,     \* main: Option, the parsed command line and the selected preset
    params    \* main: Option, the parameters main resolved from args

vars == << op, auth, text, pc, exit, report, backlog, conns, events, wire, reply, polled, clock,
          ran, accept_errors, args, params >>

Ops == {"direct_listen", "direct_send", "relay_listen", "relay_send"}

Init ==
    /\ op \in Ops
    /\ auth \in AuthOpts
    /\ text \in (IF op \in {"direct_listen", "relay_listen"} THEN Templates ELSE Messages)
    /\ pc = "start"
    /\ exit = None
    /\ report = "none"
    /\ backlog = << >>
    /\ conns = << >>
    /\ events = << >>
    /\ wire = None
    /\ reply = None
    /\ polled = << >>
    /\ clock = 0
    /\ ran = << >>
    /\ accept_errors = 0
    /\ args = None
    /\ params = None

Last(s) == s[Len(s)]

ReplaceLast(s, x) == [s EXCEPT ![Len(s)] = x]

\* -------------------------------------------------------------- run_command
\* a listener that acknowledges only a command that succeeded
DirectAckOnSuccess(outcome) == IF outcome = "success" THEN << OkLine >> ELSE << >>

\* direct_listen after run_command returned: let _ = stream.write_all(b"OK\n"),
\* whatever the outcome was
DirectAck(outcome) == << OkLine >>

\* a run_command that unwraps the result of status()
AfterRunCommandUnwrap(outcome) == IF outcome = "launch_failed" THEN "exit" ELSE "loop"

\* the match on status in run_command only prints; the caller's loop goes on
AfterRunCommand(outcome) == "loop"

\* run_command: Command::new("sh").arg("-c").arg(cmd).status() blocks until
\* the command has ended; every outcome is only printed
RunCommandFinish(outcome) ==
    /\ pc = "running"
    /\ pc' = AfterRunCommand(outcome)
    /\ IF op = "direct_listen"
       THEN \* direct_listen goes on with stream.write_all(b"OK\n")
            /\ conns' = ReplaceLast(conns, [Last(conns) EXCEPT
                            !.outcome = outcome,
                            !.resp = @ \o DirectAck(outcome),
                            !.closed = TRUE])
            /\ UNCHANGED events
       ELSE /\ events' = ReplaceLast(events, [Last(events) EXCEPT !.outcome = outcome])
            /\ UNCHANGED conns
    /\ UNCHANGED << ran, accept_errors, args, params, op, auth, text, exit, report, backlog, wire, reply, polled, clock >>

\* ------------------------------------------------------------ direct_listen
\* TcpListener::bind: a failure ends the process with status 1
DirectBind(ok) ==
    /\ op = "direct_listen"
    /\ pc = "start"
    /\ IF ok
       THEN pc' = "loop" /\ UNCHANGED << exit, report >>
       ELSE pc' = "exit" /\ exit' = Some(1) /\ report' = "bind_failed"
    /\ UNCHANGED << ran, accept_errors, args, params, op, auth, text, backlog, conns, events, wire, reply, polled, clock >>

\* the items listener.incoming() has yielded or will yield: the connections
\* that arrived and the accept errors
IncomingItems == Len(backlog) + Len(conns) + accept_errors

\* a peer connects and writes bytes; the connection waits in the accept queue
PeerConnect(bytes) ==
    /\ op = "direct_listen"
    /\ pc \in {"loop", "running"}
    /\ IncomingItems < MaxConns
    /\ backlog' = Append(backlog, bytes)
    /\ UNCHANGED << ran, accept_errors, args, params, op, auth, text, pc, exit, report, conns, events, wire, reply, polled, clock >>

\* listener.incoming() yields Err: the error is printed and the loop goes on
AcceptError ==
    /\ op = "direct_listen"
    /\ pc = "loop"
    /\ IncomingItems < MaxConns
    /\ accept_errors' = accept_errors + 1
    /\ report' = "connection_error"
    /\ UNCHANGED << ran, args, params, op, auth, text, pc, exit, backlog, conns, events, wire, reply, polled, clock >>

\* an auth check that looks at the "AUTH:" tag only
AuthLineOkAnyToken(item, expected) == item.ok /\ StartsWith(item.line, AuthPrefix)

\* the guard of the first match arm: Some(Ok(line)) if line == format!("AUTH:{}", expected_auth)
AuthLineOk(item, expected) == item.ok /\ item.line = AuthPrefix \o expected

\* a listener that takes a first line starting with "AUTH:" for an auth line
\* even when it expects no token
DirectDecodeSkipAuth(bytes, expected) ==
    LET L == Lines(bytes)
        skip == Len(L) >= 1 /\ L[1].ok /\ StartsWith(L[1].line, AuthPrefix)
        k == IF skip THEN 2 ELSE 1
    IN  [authed |-> TRUE,
         nread |-> IF Len(L) >= k THEN k ELSE Len(L),
         msg |-> IF Len(L) >= k /\ L[k].ok THEN Some(L[k].line) ELSE None]

\* a listener that reads the connection to its end and takes the last line
\* for the message
DirectDecodeLastLine(bytes, expected) ==
    LET L == Lines(bytes)
    IN  IF expected # None /\ ~(Len(L) >= 1 /\ AuthLineOk(L[1], expected[1]))
        THEN [authed |-> FALSE, nread |-> IF Len(L) >= 1 THEN 1 ELSE 0, msg |-> None]
        ELSE LET k == IF expected # None THEN 2 ELSE 1
             IN  [authed |-> TRUE,
                  nread |-> Len(L),
                  msg |-> IF Len(L) >= k /\ L[Len(L)].ok THEN Some(L[Len(L)].line) ELSE None]

\* the reads of one loop iteration over the lines of the connection:
\* the auth line when a token is expected, then the message line
DirectDecode(bytes, expected) ==
    LET L == Lines(bytes)
    IN  IF expected # None /\ ~(Len(L) >= 1 /\ AuthLineOk(L[1], expected[1]))
        THEN [authed |-> FALSE, nread |-> IF Len(L) >= 1 THEN 1 ELSE 0, msg |-> None]
        ELSE LET k == IF expected # None THEN 2 ELSE 1
             IN  [authed |-> TRUE,
                  nread |-> IF Len(L) >= k THEN k ELSE Len(L),
                  msg |-> IF Len(L) >= k /\ L[k].ok THEN Some(L[k].line) ELSE None]

\* a listener that answers every envelope it cannot dispatch with ERR:AUTH
EarlyResponseAlways(d) == IF d.authed /\ d.msg # None THEN << >> ELSE << ErrAuthLine >>

\* what the loop body writes before run_command: ERR:AUTH in the rejecting
\* match arm, nothing otherwise
EarlyResponse(d) == IF d.authed THEN << >> ELSE << ErrAuthLine >>

\* a listener that accepts while the previous loop body is still running
ListenerIdleConcurrent == pc \in {"loop", "running"}

\* listener.incoming() hands out the next connection only when the loop
\* body of the previous one has ended
ListenerIdle == pc = "loop"

\* a listener that closes the connections that queued up while it was busy
AcceptQueueDropped(queue) == << >>

\* listener.incoming() takes the oldest waiting connection; the others stay
\* in the accept queue of the operating system
AcceptQueueAfter(queue) == Tail(queue)

\* one iteration of the accept loop up to the call of run_command
DirectAccept ==
    /\ op = "direct_listen"
    /\ ListenerIdle
    /\ backlog # << >>
    /\ LET bytes == Head(backlog)
           d == DirectDecode(bytes, auth)
           dispatch == d.authed /\ d.msg # None
       IN  /\ conns' = Append(conns,
                  [bytes |-> bytes,
                   nread |-> d.nread,
                   resp |-> EarlyResponse(d),
                   msg |-> d.msg,
                   cmd |-> IF dispatch THEN Some(Replace(text, d.msg[1])) ELSE None,
                   outcome |-> "none",
                   closed |-> ~dispatch])
           /\ ran' = IF dispatch THEN Append(ran, Replace(text, d.msg[1])) ELSE ran
           /\ pc' = IF dispatch THEN "running" ELSE "loop"
    /\ backlog' = AcceptQueueAfter(backlog)
    /\ UNCHANGED << accept_errors, args, params, op, auth, text, exit, report, events, wire, reply, polled, clock >>

\* ------------------------------------------------------------- relay_listen
\* Client::new and subscribe only queue requests; the session is driven by
\* the event loop
RelayListenStart ==
    /\ op = "relay_listen"
    /\ pc = "start"
    /\ pc' = "loop"
    /\ UNCHANGED << ran, accept_errors, args, params, op, auth, text, exit, report, backlog, conns, events, wire, reply, polled, clock >>

\* an auth check that forgets the colon after the token
RelayDecodeNoColon(payload, expected) ==
    IF expected # None
    THEN StripPrefix(payload, AuthPrefix \o expected[1])
    ELSE Some(payload)

\* an auth check that looks at the "AUTH:" tag and not at the token
RelayDecodeAnyToken(payload, expected) ==
    IF expected # None
    THEN StripPrefix(payload, AuthPrefix)
    ELSE Some(payload)

\* the auth check of relay_listen on the lossily decoded payload
RelayDecode(payload, expected) ==
    IF expected # None
    THEN StripPrefix(payload, AuthPrefix \o expected[1] \o << ":" >>)
    ELSE Some(payload)

\* an event loop that takes the next event while a command still runs
EventLoopIdleConcurrent == pc \in {"loop", "running"}

\* connection.iter() is asked for the next event only when the loop body of
\* the previous one, run_command included, has returned
EventLoopIdle == pc = "loop"

\* one item of connection.iter(): flatten() drops an Err item, anything but
\* an incoming publish is ignored
RelayListenEvent(kind, bytes) ==
    /\ op = "relay_listen"
    /\ EventLoopIdle
    /\ Len(events) < MaxEvents
    /\ kind # "publish" => bytes = << >>
    /\ LET payload == Utf8Lossy(bytes)
           m == IF kind = "publish" THEN RelayDecode(payload, auth) ELSE None
       IN  /\ events' = Append(events,
                  [kind |-> kind,
                   bytes |-> bytes,
                   payload |-> payload,
                   msg |-> m,
                   cmd |-> IF m # None THEN Some(Replace(text, m[1])) ELSE None,
                   outcome |-> "none"])
           /\ ran' = IF m # None THEN Append(ran, Replace(text, m[1])) ELSE ran
           /\ pc' = IF m # None THEN "running" ELSE "loop"
    /\ UNCHANGED << accept_errors, args, params, op, auth, text, exit, report, backlog, conns, wire, reply, polled, clock >>

\* -------------------------------------------------------------- direct_send
\* TcpStream::connect, then the two writeln! calls
DirectSendConnect(ok) ==
    /\ op = "direct_send"
    /\ pc = "start"
    /\ IF ok
       THEN /\ pc' = "reading"
            /\ wire' = Some(DirectEncode(auth, text))
            /\ UNCHANGED << exit, report >>
       ELSE /\ pc' = "exit"
            /\ exit' = Some(1)
            /\ report' = "connect_failed"
            /\ UNCHANGED wire
    /\ UNCHANGED << ran, accept_errors, args, params, op, auth, text, backlog, conns, events, reply, polled, clock >>

\* what direct_send does with the result of read_line: [report, status]
DirectSendOutcome(res) ==
    IF res.ok
    THEN IF Trim(res.line) = OkLine
         THEN [report |-> "sent", status |-> 0]
         ELSE [report |-> "error", status |-> 1]
    ELSE [report |-> "none", status |-> 0]

\* reader.read_line(&mut response) and the branches on it
DirectSendRead(bytes) ==
    /\ op = "direct_send"
    /\ pc = "reading"
    /\ LET res == ReadLine(bytes)
           o == DirectSendOutcome(res)
       IN  /\ reply' = Some(res)
           /\ report' = o.report
           /\ exit' = Some(o.status)
    /\ pc' = "exit"
    /\ UNCHANGED << ran, accept_errors, args, params, op, auth, text, backlog, conns, events, wire, polled, clock >>

\* --------------------------------------------------------------- relay_send
\* client.publish(payload), then Instant::now()
RelaySendPublish ==
    /\ op = "relay_send"
    /\ pc = "start"
    /\ wire' = Some(RelayEncode(auth, text))
    /\ pc' = "polling"
    /\ UNCHANGED << ran, accept_errors, args, params, op, auth, text, exit, report, backlog, conns, events, reply, polled, clock >>

\* a second passes while relay_send is blocked in connection.iter()
Tick ==
    /\ op = "relay_send"
    /\ pc = "polling"
    /\ clock < MaxTime
    /\ clock' = clock + 1
    /\ UNCHANGED << ran, accept_errors, args, params, op, auth, text, pc, exit, report, backlog, conns, events, wire, reply, polled >>

\* a sender that looks at the event before it tests the limit
RelaySendStepEventFirst(kind, elapsed) ==
    IF kind = "outgoing_publish"
    THEN [pc |-> "exit", report |-> "sent", exit |-> Some(0)]
    ELSE IF kind = "err"
         THEN [pc |-> "exit", report |-> "error", exit |-> Some(1)]
         ELSE IF elapsed > Timeout
              THEN [pc |-> "exit", report |-> "timeout", exit |-> Some(1)]
              ELSE [pc |-> "polling", report |-> "none", exit |-> None]

\* a sender that takes the connection acknowledgment for the confirmation
RelaySendStepConnAck(kind, elapsed) ==
    IF elapsed > Timeout
    THEN [pc |-> "exit", report |-> "timeout", exit |-> Some(1)]
    ELSE IF kind \in {"outgoing_publish", "connack"}
         THEN [pc |-> "exit", report |-> "sent", exit |-> Some(0)]
         ELSE IF kind = "err"
              THEN [pc |-> "exit", report |-> "error", exit |-> Some(1)]
              ELSE [pc |-> "polling", report |-> "none", exit |-> None]

\* the loop body of relay_send for one yielded event: [pc, report, exit]
RelaySendStep(kind, elapsed) ==
    IF elapsed > Timeout
    THEN [pc |-> "exit", report |-> "timeout", exit |-> Some(1)]
    ELSE IF kind = "outgoing_publish"
         THEN [pc |-> "exit", report |-> "sent", exit |-> Some(0)]
         ELSE IF kind = "err"
              THEN [pc |-> "exit", report |-> "error", exit |-> Some(1)]
              ELSE [pc |-> "polling", report |-> "none", exit |-> None]

\* connection.iter() yields an event and the loop body runs on it
RelaySendPoll(kind) ==
    /\ op = "relay_send"
    /\ pc = "polling"
    /\ Len(polled) < MaxEvents \/ clock > Timeout
    /\ polled' = Append(polled, [kind |-> kind, at |-> clock])
    /\ LET r == RelaySendStep(kind, clock)
       IN  pc' = r.pc /\ report' = r.report /\ exit' = r.exit
    /\ UNCHANGED << ran, accept_errors, args, params, op, auth, text, backlog, conns, events, wire, reply, clock >>

\* ---------------------------------------------------------- specifications
Next ==
    \/ \E ok \in BOOLEAN : DirectBind(ok)
    \/ \E bytes \in DirectStreams : PeerConnect(bytes)
    \/ AcceptError
    \/ DirectAccept
    \/ \E outcome \in Outcomes : RunCommandFinish(outcome)
    \/ RelayListenStart
    \/ \E kind \in ListenEventKinds, bytes \in RelayPayloads : RelayListenEvent(kind, bytes)
    \/ \E ok \in BOOLEAN : DirectSendConnect(ok)
    \/ \E bytes \in Replies : DirectSendRead(bytes)
    \/ RelaySendPublish
    \/ Tick
    \/ \E kind \in SendEventKinds : RelaySendPoll(kind)

Spec == Init /\ [][Next]_vars

\* relay_send runs its own steps and time passes; nothing obliges the event
\* stream to yield: connection.iter() blocks until the event loop has an
\* event.  RelaySendPoll stays enabled after the limit, so a behaviour that
\* stays in "polling" is one in which the stream is silent.
FairSpec == Spec /\ WF_vars(RelaySendPublish) /\ WF_vars(Tick)

\* the two listeners alone, with fewer kinds of peers: a sender with the
\* token "s", a sender without a token, a peer that sends the auth line
\* only, one that sends a line too many, one that sends bytes that are no
\* text, and one that sends nothing
ListenStreams ==
    { DirectEncode(Some(<< "s" >>), << "a" >>),
      DirectEncode(None, << "a" >>),
      DirectEncode(None, AuthPrefix \o << "s" >>),
      AuthPrefix \o << "s", LF, "a", LF, "b", LF >>,
      << "xFF", LF, "a", LF >>,
      << >> }

ListenPayloads ==
    { RelayEncode(Some(<< "s" >>), << "a" >>),
      RelayEncode(None, << "a" >>),
      RelayEncode(Some(<< "w" >>), << "a" >>),
      RelayEncode(Some(<< "w" >>), << "a", ":", "b" >>),
      RelayEncode(Some(<< "s", ":" >>), << "a" >>),
      << >> }

ListenInit == Init /\ op \in {"direct_listen", "relay_listen"}

ListenNext ==
    \/ \E ok \in BOOLEAN : DirectBind(ok)
    \/ \E bytes \in ListenStreams : PeerConnect(bytes)
    \/ AcceptError
    \/ DirectAccept
    \/ \E outcome \in Outcomes : RunCommandFinish(outcome)
    \/ RelayListenStart
    \/ \E kind \in ListenEventKinds, bytes \in ListenPayloads : RelayListenEvent(kind, bytes)

ListenSpec == ListenInit /\ [][ListenNext]_vars

\* the Relay sender alone
RelaySendInit == Init /\ op = "relay_send"

RelaySendNext ==
    \/ RelaySendPublish
    \/ Tick
    \/ \E kind \in SendEventKinds : RelaySendPoll(kind)

RelaySendSpec == RelaySendInit /\ [][RelaySendNext]_vars

\* the listeners without a token, with templates and messages that hold
\* braces: none, one and several placeholders, lone and nested braces
SubstTemplates ==
    { << >>,
      << "e" >>,
      << "{", "}" >>,
      << "e", "{", "}" >>,
      << "{", "}", "{", "}" >>,
      << "{", "}", "e", "{", "}" >>,
      << "{", "{", "}", "}" >>,
      << "}", "{" >>,
      << "{", "e", "}" >> }

SubstMessages == { << >>, << "a" >>, << "{", "}", "x" >>, << "}" >>, << "a", "b", "c" >> }

SubstInit ==
    /\ op \in {"direct_listen", "relay_listen"}
    /\ auth = None
    /\ text \in SubstTemplates
    /\ pc = "start"
    /\ exit = None
    /\ report = "none"
    /\ backlog = << >>
    /\ conns = << >>
    /\ events = << >>
    /\ wire = None
    /\ reply = None
    /\ polled = << >>
    /\ clock = 0
    /\ ran = << >>
    /\ accept_errors = 0
    /\ args = None
    /\ params = None

SubstNext ==
    \/ DirectBind(TRUE)
    \/ \E m \in SubstMessages : PeerConnect(DirectEncode(None, m))
    \/ DirectAccept
    \/ RunCommandFinish("success")
    \/ RelayListenStart
    \/ \E m \in SubstMessages : RelayListenEvent("publish", RelayEncode(None, m))

SubstSpec == SubstInit /\ [][SubstNext]_vars

\* ------------------------------------------------------------------ main
\* the command line as clap parsed it and the preset named by --preset
DefaultPort == 1883

CliOptions ==
    [ addr    : {None, Some("cli_addr")},
      relay   : {None, Some("cli_relay")},
      port    : {None, Some(1883), Some(1884)},
      topic   : {None, Some("cli_topic")},
      message : {None, Some(<< "a" >>)},
      auth    : {None, Some(<< "s" >>)} ]

Presets ==
    [ addr    : {None, Some("preset_addr")},
      relay   : {None, Some("preset_relay")},
      port    : {None, Some(1883), Some(8883)},
      topic   : {None, Some("preset_topic")},
      message : {None, Some(<< "b" >>)},
      auth    : {None, Some(<< "w" >>)} ]

\* Preset::default()
DefaultPreset ==
    [ addr |-> None, relay |-> None, port |-> None, topic |-> None, message |-> None, auth |-> None ]

\* Args with neither an option nor a preset
NoOptions ==
    [ addr |-> None, relay |-> None, port |-> None, topic |-> None, message |-> None, auth |-> None ]

MainArgs ==
    {[command |-> c, preset |-> n, cli |-> x, p |-> DefaultPreset] :
        c \in {"listen", "send"}, n \in {"absent", "missing"}, x \in CliOptions}
    \cup {[command |-> c, preset |-> "found", cli |-> x, p |-> y] :
        c \in {"listen", "send"}, x \in CliOptions, y \in Presets}
    \cup {[command |-> c, preset |-> "absent", cli |-> NoOptions, p |-> DefaultPreset] :
        c \in {"examples", "none"}}

\* Option::or
Or(a, b) == IF a # None THEN a ELSE b

\* the value clap gives the port field: the option or default_value = "1883"
CliPort(x) == IF x.port # None THEN x.port[1] ELSE DefaultPort

\* if port != 1883 { port } else { p.port.unwrap_or(1883) }
ResolvePort(port, preset_port) ==
    IF port # DefaultPort THEN port
    ELSE IF preset_port # None THEN preset_port[1] ELSE DefaultPort

\* the six "CLI overrides preset" lines
Resolve(a) ==
    [ addr    |-> Or(a.cli.addr, a.p.addr),
      relay   |-> Or(a.cli.relay, a.p.relay),
      port    |-> ResolvePort(CliPort(a.cli), a.p.port),
      topic   |-> Or(a.cli.topic, a.p.topic),
      message |-> Or(a.cli.message, a.p.message),
      auth    |-> Or(a.cli.auth, a.p.auth) ]

\* a selection that starts the relay operation without a topic
SelectOpNoTopic(command, p) ==
    IF p.message = None THEN "config_error"
    ELSE IF p.relay # None
         THEN (IF command = "listen" THEN "relay_listen" ELSE "relay_send")
         ELSE IF p.addr # None
              THEN (IF command = "listen" THEN "direct_listen" ELSE "direct_send")
              ELSE "config_error"

\* the operation main invokes for the resolved parameters, or the
\* configuration error it exits with
SelectOp(command, p) ==
    IF p.message = None THEN "config_error"
    ELSE IF p.relay # None
         THEN (IF p.topic = None THEN "config_error"
               ELSE IF command = "listen" THEN "relay_listen" ELSE "relay_send")
         ELSE IF p.addr # None
              THEN (IF command = "listen" THEN "direct_listen" ELSE "direct_send")
              ELSE "config_error"

MainEnd(status, what) ==
    /\ pc' = "exit"
    /\ exit' = Some(status)
    /\ report' = what
    /\ UNCHANGED << op, auth, text >>

Main ==
    /\ pc = "main"
    /\ LET a == args[1]
       IN  IF a.command = "examples"
           THEN MainEnd(0, "examples") /\ UNCHANGED params
           ELSE IF a.command = "none"
           THEN MainEnd(1, "no_subcommand") /\ UNCHANGED params
           ELSE IF a.preset = "missing"
           THEN MainEnd(1, "preset_not_found") /\ UNCHANGED params
           ELSE LET p == Resolve(a)
                    o == SelectOp(a.command, p)
                IN  /\ params' = Some(p)
                    /\ IF o = "config_error"
                       THEN MainEnd(1, "config_error")
                       ELSE /\ op' = o
                            /\ auth' = p.auth
                            /\ text' = p.message[1]
                            /\ pc' = "start"
                            /\ UNCHANGED << exit, report >>
    /\ UNCHANGED << ran, accept_errors, args, backlog, conns, events, wire, reply, polled, clock >>

MainInit ==
    /\ args \in {Some(a) : a \in MainArgs}
    /\ params = None
    /\ op = "none"
    /\ auth = None
    /\ text = << >>
    /\ pc = "main"
    /\ exit = None
    /\ report = "none"
    /\ backlog = << >>
    /\ conns = << >>
    /\ events = << >>
    /\ wire = None
    /\ reply = None
    /\ polled = << >>
    /\ clock = 0
    /\ ran = << >>
    /\ accept_errors = 0

\* main and the first step of the operation it invokes
MainNext ==
    \/ Main
    \/ \E ok \in BOOLEAN : DirectBind(ok)
    \/ \E ok \in BOOLEAN : DirectSendConnect(ok)
    \/ RelayListenStart
    \/ RelaySendPublish

MainSpec == MainInit /\ [][MainNext]_vars

\* ------------------------------------------------------------------ claims
\* In the claims a line of a connection is an item of the line reader: the
\* text before an LF (or before EOF), less one CR directly before the LF.
\* The payload of a publish is the value of the variable payload of
\* relay_listen, the text decoded from the bytes of the publish.

\* the first line of the stream is readable and is "AUTH:" followed by e
FirstLineIsAuth(bytes, e) ==
    LET L == Lines(bytes) IN Len(L) >= 1 /\ L[1].ok /\ L[1].line = AuthPrefix \o e

\* C1: a Direct listener expecting token e answers every accepted connection
\* whose first line is not exactly "AUTH:" followed by e (or that has no
\* line) with the single line ERR:AUTH, reads no message line of it and runs
\* no command for it.
C1_AuthRejected ==
    (op = "direct_listen" /\ auth # None) =>
        \A k \in 1..Len(conns) :
            ~FirstLineIsAuth(conns[k].bytes, auth[1]) =>
                /\ conns[k].resp = << ErrAuthLine >>
                /\ conns[k].nread <= 1
                /\ conns[k].msg = None
                /\ conns[k].cmd = None
                /\ conns[k].outcome = "none"
                /\ conns[k].closed

\* a rejected connection that held a message line after a wrong first line
C1_Witness ==
    /\ op = "direct_listen" /\ auth # None
    /\ \E k \in 1..Len(conns) :
          /\ ~FirstLineIsAuth(conns[k].bytes, auth[1])
          /\ Len(Lines(conns[k].bytes)) >= 2
          /\ conns[k].resp = << ErrAuthLine >>

\* C2: a Relay listener expecting token e dispatches nothing for a publish
\* whose payload does not start with "AUTH:" e ":" and stays in its event
\* loop; for a payload that starts with it the dispatched message is the
\* rest of the payload after that prefix.
C2_RelayAuth ==
    (op = "relay_listen" /\ auth # None) =>
        LET prefix == AuthPrefix \o auth[1] \o << ":" >>
        IN  \A i \in 1..Len(events) :
                events[i].kind = "publish" =>
                    IF StartsWith(events[i].payload, prefix)
                    THEN /\ events[i].msg = Some(SubSeq(events[i].payload, Len(prefix) + 1, Len(events[i].payload)))
                         /\ events[i].cmd = Some(Replace(text, events[i].msg[1]))
                    ELSE /\ events[i].msg = None
                         /\ events[i].cmd = None
                         /\ events[i].outcome = "none"
                         /\ exit = None
                         /\ (i = Len(events) => pc = "loop")

\* a publish with a wrong tag was dropped and the next one, whose message
\* holds a colon, was dispatched
C2_Witness ==
    /\ op = "relay_listen" /\ auth # None
    /\ Len(events) = 2
    /\ events[1].kind = "publish" /\ events[1].msg = None
    /\ events[2].kind = "publish" /\ events[2].msg = Some(<< "a", ":", "b" >>)
    /\ events[2].outcome # "none"

\* C3: on both transports, what the sender writes for token t and a message
\* m without a newline is decoded by a listener configured with t into
\* exactly m.
C3_RoundTrip ==
    /\ op = "direct_listen" =>
          \A k \in 1..Len(conns) : \A m \in Messages :
              conns[k].bytes = DirectEncode(auth, m) => conns[k].msg = Some(m)
    /\ op = "relay_listen" =>
          \A i \in 1..Len(events) : \A m \in Messages :
              (events[i].kind = "publish" /\ events[i].bytes = RelayEncode(auth, m))
                  => events[i].msg = Some(m)

\* C4: a listener without a token dispatches the first line of a connection
\* (Direct, acknowledged with OK) or the whole payload (Relay) as the
\* message, also when it starts with "AUTH:".
C4_NoAuthPassThrough ==
    /\ (op = "direct_listen" /\ auth = None) =>
          \A k \in 1..Len(conns) :
              LET L == Lines(conns[k].bytes)
              IN  (Len(L) >= 1 /\ L[1].ok) =>
                      /\ conns[k].msg = Some(L[1].line)
                      /\ conns[k].cmd = Some(Replace(text, L[1].line))
                      /\ conns[k].closed => conns[k].resp = << OkLine >>
    /\ (op = "relay_listen" /\ auth = None) =>
          \A i \in 1..Len(events) :
              events[i].kind = "publish" =>
                  /\ events[i].msg = Some(events[i].payload)
                  /\ events[i].cmd = Some(Replace(text, events[i].payload))

\* a first line "AUTH:s" was dispatched as the message and acknowledged
C4_Witness ==
    /\ op = "direct_listen" /\ auth = None
    /\ \E k \in 1..Len(conns) :
          /\ conns[k].msg = Some(AuthPrefix \o << "s" >>)
          /\ conns[k].resp = << OkLine >>

\* C5: the Direct listener writes OK after the dispatch attempt whatever the
\* outcome of the command was (success, failure status, interpreter not
\* launched), and writes OK only for a connection whose message was
\* dispatched.
C5_AckUnconditional ==
    op = "direct_listen" =>
        \A k \in 1..Len(conns) :
            /\ (conns[k].cmd # None /\ conns[k].outcome \in Outcomes) => conns[k].resp = << OkLine >>
            /\ (conns[k].cmd # None /\ conns[k].closed) => conns[k].outcome \in Outcomes
            /\ (\E j \in 1..Len(conns[k].resp) : conns[k].resp[j] = OkLine) =>
                   (conns[k].cmd # None /\ conns[k].outcome \in Outcomes)

\* one command failed, another could not be launched, both were acknowledged
C5_Witness ==
    /\ op = "direct_listen"
    /\ \E j, k \in 1..Len(conns) :
          /\ conns[j].outcome = "failure" /\ conns[j].resp = << OkLine >>
          /\ conns[k].outcome = "launch_failed" /\ conns[k].resp = << OkLine >>

\* the stream passes the auth line (or none is needed) and the message line
\* is missing or unreadable
NoMessageLine(bytes, expected) ==
    LET L == Lines(bytes)
        k == IF expected # None THEN 2 ELSE 1
    IN  /\ expected # None => FirstLineIsAuth(bytes, expected[1])
        /\ ~(Len(L) >= k /\ L[k].ok)

\* C6: a connection that passes the auth line (or needs none) and ends or
\* fails before a message line gets no response line and no dispatch, and
\* the listener goes on to the next connection.
C6_MalformedDropped ==
    op = "direct_listen" =>
        \A k \in 1..Len(conns) :
            NoMessageLine(conns[k].bytes, auth) =>
                /\ conns[k].resp = << >>
                /\ conns[k].msg = None
                /\ conns[k].cmd = None
                /\ conns[k].outcome = "none"
                /\ conns[k].closed
                /\ (k = Len(conns) => pc = "loop")

\* an auth line alone was dropped silently and the next connection was served
C6_Witness ==
    /\ op = "direct_listen" /\ auth # None
    /\ Len(conns) = 2
    /\ NoMessageLine(conns[1].bytes, auth)
    /\ conns[1].resp = << >>
    /\ conns[2].resp = << OkLine >>

\* C7: direct_send ends with status zero exactly when the acknowledgment
\* line, trailing whitespace trimmed, is OK; any other content and a failed
\* read end it with a non-zero status.
C7_SenderOutcome ==
    (op = "direct_send" /\ reply # None) =>
        /\ exit # None
        /\ (exit = Some(0)) <=> (reply[1].ok /\ TrimEnd(reply[1].line) = OkLine)

\* C8: relay_send never hangs: when no confirmation comes it ends with a
\* failure and a non-zero status, also when the event stream yields no
\* further event after the publish.
C8_NeverHangs ==
    (op = "relay_send" /\ pc = "polling") ~> (report = "sent" \/ exit = Some(1))

\* C9: relay_send reports success only on the outgoing-publish event;
\* connection acknowledgments and other non-error events neither make it
\* report success nor end the polling (only the 5 second limit of C8 does);
\* an error event before the confirmation ends the send with a non-zero
\* status.
C9_Confirmation ==
    op = "relay_send" =>
        /\ report = "sent" => (polled # << >> /\ Last(polled).kind = "outgoing_publish")
        /\ exit = Some(0) => report = "sent"
        /\ \A i \in 1..Len(polled) :
              /\ polled[i].kind \in {"connack", "other"} =>
                    \/ i < Len(polled)
                    \/ pc = "polling" /\ exit = None /\ report = "none"
                    \/ report = "timeout" /\ exit = Some(1) /\ polled[i].at > Timeout
              /\ polled[i].kind = "err" => (i = Len(polled) /\ exit = Some(1) /\ report # "sent")

\* after a connection acknowledgment and another event the sender still polls
C9_Witness ==
    /\ op = "relay_send"
    /\ Len(polled) = 2
    /\ polled[1].kind = "connack" /\ polled[2].kind = "other"
    /\ pc = "polling"

\* C10: the Direct listener handles one connection at a time, in accept
\* order: when connection k+1 has been accepted, the decode, the command and
\* the response of connection k are finished.
C10_Sequential ==
    op = "direct_listen" =>
        /\ \A k \in 1..Len(conns) :
              k < Len(conns) =>
                  /\ conns[k].closed
                  /\ conns[k].cmd # None => (conns[k].outcome \in Outcomes /\ conns[k].resp = << OkLine >>)
        /\ pc = "running" <=> (conns # << >> /\ ~Last(conns).closed)

\* a second connection waits in the accept queue while the command of the
\* first one runs
C10_Witness ==
    /\ op = "direct_listen"
    /\ pc = "running"
    /\ Len(conns) = 1
    /\ backlog # << >>

\* the connections that reached the listener, in arrival order
Arrived == [k \in 1..Len(conns) |-> conns[k].bytes] \o backlog

\* the stream holds the auth line the listener expects (when it expects
\* one) and a readable message line after it
CompleteEnvelope(bytes, expected) ==
    /\ expected # None => FirstLineIsAuth(bytes, expected[1])
    /\ ~NoMessageLine(bytes, expected)

\* every command that was started ends
CommandsTerminate == []<>(pc # "running")

\* the listener, back at listener.incoming(), takes a waiting connection
ListenerAccepts == []<>~(pc = "loop" /\ backlog # << >>)

\* C11: provided every command ends (and the listener keeps running), every
\* connection that reached the Direct listener with a complete envelope is
\* eventually dispatched and answered with OK, also when it queued up
\* behind a running command.  The peers of the model have sent their lines
\* and closed when they connect.
C11_NoConnectionLost ==
    (CommandsTerminate /\ ListenerAccepts) =>
        \A n \in 1..MaxConns :
            (op = "direct_listen" /\ Len(Arrived) >= n /\ CompleteEnvelope(Arrived[n], auth))
                ~> (Len(conns) >= n /\ conns[n].cmd # None /\ conns[n].resp = << OkLine >>)

\* two complete envelopes, the second answered after the command of the first
C11_Witness ==
    /\ op = "direct_listen"
    /\ Len(conns) = 2
    /\ conns[1].outcome \in Outcomes
    /\ CompleteEnvelope(conns[2].bytes, auth)
    /\ conns[2].resp = << OkLine >>

\* C12: no error of one connection or message ends a running listener:
\* after accept errors, auth failures, malformed envelopes, failed commands
\* and launch failures the Direct listener is in its accept loop and the
\* Relay listener in its event loop (or in a command that returns to it).
C12_ListenerSurvives ==
    (op \in {"direct_listen", "relay_listen"} /\ pc # "start" /\ report # "bind_failed") =>
        /\ exit = None
        /\ pc \in {"loop", "running"}
        /\ pc = "running" => (ran # << >> /\ \E outcome \in Outcomes : ENABLED RunCommandFinish(outcome))

\* after a rejected connection and a command that could not be launched the
\* listener waits for the next connection
C12_Witness ==
    /\ op = "direct_listen"
    /\ Len(conns) = 2
    /\ conns[1].resp = << ErrAuthLine >>
    /\ conns[2].outcome = "launch_failed"
    /\ pc = "loop"
    /\ exit = None

\* a failure to establish the transport ends the three operations that
\* test for it: bind (direct_listen), connect (direct_send) and an error
\* event of the broker session (relay_send)
ConnectFailureFatalElsewhere ==
    /\ (op = "direct_listen" /\ report = "bind_failed") =>
           (exit = Some(1) /\ pc = "exit" /\ conns = << >> /\ ran = << >>)
    /\ (op = "direct_send" /\ report = "connect_failed") =>
           (exit = Some(1) /\ pc = "exit" /\ wire = None)
    /\ op = "relay_send" =>
           \A i \in 1..Len(polled) :
               polled[i].kind = "err" => (exit = Some(1) /\ pc = "exit" /\ report # "sent")

\* C13: a bind failure, a connect failure and a broker-connect failure each
\* end the operation with a reported error and a non-zero status, without
\* retry, dispatch or success report.  The broker session is opened by the
\* event loop, so a broker-connect failure reaches relay_listen and
\* relay_send as an Err item of connection.iter().
C13_ConnectFailureFatal ==
    /\ ConnectFailureFatalElsewhere
    /\ op = "relay_listen" =>
           \A i \in 1..Len(events) :
               events[i].kind = "err" => (exit = Some(1) /\ pc = "exit")

\* the tokens a sender on the topic may be configured with
SenderTokens == Tokens \cup { << "w" >> }

NoColon(t) == \A i \in 1..Len(t) : t[i] # ":"

\* the payload relay_send publishes for token t and some message
SentWith(bytes, t) == \E m \in Messages : bytes = RelayEncode(Some(t), m)

\* C14: a Relay listener expecting token e dispatches no payload that a
\* sender configured with a token t different from e publishes, whatever t
\* is (a token with a colon, a token that has e as a prefix).
C14_MismatchNeverDispatched ==
    (op = "relay_listen" /\ auth # None) =>
        \A i \in 1..Len(events) : \A t \in SenderTokens :
            (events[i].kind = "publish" /\ t # auth[1] /\ SentWith(events[i].bytes, t))
                => (events[i].msg = None /\ events[i].cmd = None)

\* C14 as amended: the same for tokens t and e that hold no colon.
C14_MismatchNoColon ==
    (op = "relay_listen" /\ auth # None /\ NoColon(auth[1])) =>
        \A i \in 1..Len(events) : \A t \in SenderTokens :
            (events[i].kind = "publish" /\ NoColon(t) /\ t # auth[1] /\ SentWith(events[i].bytes, t))
                => (events[i].msg = None /\ events[i].cmd = None)

\* a publish of a sender with token "w" was dropped by a listener expecting "s"
C14_Witness ==
    /\ op = "relay_listen" /\ auth = Some(<< "s" >>)
    /\ \E i \in 1..Len(events) :
          /\ events[i].bytes = RelayEncode(Some(<< "w" >>), << "a", ":", "b" >>)
          /\ events[i].msg = None

\* the positions of the template where a placeholder "{}" starts; two
\* occurrences of "{}" cannot overlap
Placeholders(t) == {i \in 1..Len(t) : i < Len(t) /\ t[i] = "{" /\ t[i + 1] = "}"}

\* where the text that replaces position j of the template starts in the
\* command: every placeholder before j takes Len(m) places instead of two
Offset(t, m, j) ==
    LET k == Cardinality({i \in Placeholders(t) : i < j})
    IN  ((j - 1) - 2 * k) + k * Len(m)

\* cmd is the template with every placeholder replaced by m and every other
\* character kept
IsExpansion(cmd, t, m) ==
    LET n == Cardinality(Placeholders(t))
    IN  /\ Len(cmd) + 2 * n = Len(t) + n * Len(m)
        /\ \A j \in 1..Len(t) :
              IF j \in Placeholders(t)
              THEN SubSeq(cmd, Offset(t, m, j) + 1, Offset(t, m, j) + Len(m)) = m
              ELSE (j - 1) \notin Placeholders(t) => cmd[Offset(t, m, j) + 1] = t[j]

\* C15: the command handed to the interpreter is the template with every
\* placeholder {} replaced by the message, verbatim and in one pass: text
\* outside the placeholders is kept, a template without a placeholder is
\* the command, a {} inside the message is not expanded again.
C15_Substitution ==
    /\ \A k \in 1..Len(conns) :
          conns[k].cmd # None => IsExpansion(conns[k].cmd[1], text, conns[k].msg[1])
    /\ \A i \in 1..Len(events) :
          events[i].cmd # None => IsExpansion(events[i].cmd[1], text, events[i].msg[1])
    /\ \A i \in 1..Len(ran) :
          \/ \E k \in 1..Len(conns) : conns[k].cmd = Some(ran[i])
          \/ \E k \in 1..Len(events) : events[k].cmd = Some(ran[i])
    /\ Placeholders(text) = {} => \A i \in 1..Len(ran) : ran[i] = text

\* two placeholders were replaced by a message that holds a placeholder
C15_Witness ==
    /\ text = << "{", "}", "e", "{", "}" >>
    /\ ran # << >>
    /\ ran[1] = << "{", "}", "x", "e", "{", "}", "x" >>

\* the resolved parameters are one of the three configuration errors
Misconfigured(p) ==
    \/ p.message = None
    \/ p.relay = None /\ p.addr = None
    \/ p.relay # None /\ p.topic = None

\* the operation the resolved parameters name: the broker wins over the
\* address
Selected(command, p) ==
    IF p.relay # None
    THEN (IF command = "listen" THEN "relay_listen" ELSE "relay_send")
    ELSE (IF command = "listen" THEN "direct_listen" ELSE "direct_send")

\* a bind, a connect or a broker session was attempted
NetworkTouched ==
    \/ pc \in {"loop", "running", "reading", "polling"}
    \/ report \in {"bind_failed", "connect_failed"}
    \/ wire # None

\* C16: for every resolved parameter set, exactly one of the four
\* operations is invoked or a configuration error ends the process; without
\* a message/template, without an address and a broker, or with a broker
\* and no topic, the error is reported with a non-zero exit before any
\* bind, connect or broker session is attempted.
C16_OperationSelection ==
    params # None =>
        LET p == params[1]
            command == args[1].command
        IN  IF Misconfigured(p)
            THEN /\ op = "none"
                 /\ pc = "exit"
                 /\ report = "config_error"
                 /\ exit # None /\ exit[1] # 0
                 /\ ~NetworkTouched
            ELSE /\ op = Selected(command, p)
                 /\ op \in Ops
                 /\ report # "config_error"
                 /\ auth = p.auth
                 /\ text = p.message[1]

\* a broker from the preset and no topic anywhere: the configuration error
C16_Witness ==
    /\ args # None
    /\ args[1].cli.relay = None
    /\ args[1].cli.addr # None
    /\ params # None
    /\ params[1].relay = Some("preset_relay")
    /\ params[1].topic = None
    /\ params[1].message # None
    /\ report = "config_error"
    /\ exit = Some(1)

\* the value the command line gives for a parameter wins, the value of the
\* preset is used when the command line gives none
Override(given, preset_value) == IF given # None THEN given ELSE preset_value

\* C18: for each of addr, relay, port, topic, message and auth, a value
\* given on the command line overrides the value of the selected preset,
\* and the preset value is used only when the command line gives none; this
\* holds for every port the user can pass, an explicit 1883 included.
C18_CliOverridesPreset ==
    params # None =>
        LET a == args[1]
            p == params[1]
        IN  /\ p.addr = Override(a.cli.addr, a.p.addr)
            /\ p.relay = Override(a.cli.relay, a.p.relay)
            /\ p.topic = Override(a.cli.topic, a.p.topic)
            /\ p.message = Override(a.cli.message, a.p.message)
            /\ p.auth = Override(a.cli.auth, a.p.auth)
            /\ Some(p.port) = Override(a.cli.port, Override(a.p.port, Some(DefaultPort)))

\* an event of the broker session that is a publish whose payload passes
\* the auth check of the listener
PassedAuth(e) ==
    /\ e.kind = "publish"
    /\ auth # None => StartsWith(e.payload, AuthPrefix \o auth[1] \o << ":" >>)

\* C17: the publish events of one broker session are processed one at a
\* time in arrival order: the sequence of dispatched commands is the
\* arrival-ordered sequence of the publishes that passed the auth check,
\* nothing reordered, batched or duplicated, and the command of one publish
\* has completed before the next event is examined.
C17_RelayOrdering ==
    op = "relay_listen" =>
        LET passed == SelectSeq(events, PassedAuth)
        IN  /\ Len(ran) = Len(passed)
            /\ \A i \in 1..Len(passed) : passed[i].cmd = Some(ran[i])
            /\ \A i \in 1..Len(events) :
                  /\ ~PassedAuth(events[i]) => events[i].cmd = None /\ events[i].outcome = "none"
                  /\ (PassedAuth(events[i]) /\ i < Len(events)) => events[i].outcome \in Outcomes
            /\ pc = "running" =>
                  events # << >> /\ PassedAuth(Last(events)) /\ Last(events).outcome = "none"
            /\ (pc = "loop" /\ events # << >> /\ PassedAuth(Last(events))) =>
                  Last(events).outcome \in Outcomes

\* two publishes with different messages were dispatched one after the other
C17_Witness ==
    /\ op = "relay_listen"
    /\ Len(events) = 2
    /\ PassedAuth(events[1]) /\ PassedAuth(events[2])
    /\ events[1].outcome = "failure"
    /\ Len(ran) = 2
    /\ ran[1] # ran[2]
    /\ pc = "running"

\* the number of lines an envelope has for a listener: the auth line when
\* a token is expected, and the message line
EnvelopeLines == IF auth # None THEN 2 ELSE 1

\* C19: for every accepted connection the Direct listener writes at most
\* one response line, OK or ERR:AUTH and never both, and dispatches at most
\* one command; lines the peer sent after the message line are never read,
\* dispatched or answered.
C19_OneResponse ==
    op = "direct_listen" =>
        /\ \A k \in 1..Len(conns) :
              LET c == conns[k]
                  L == Lines(c.bytes)
              IN  /\ c.resp \in { << >>, << OkLine >>, << ErrAuthLine >> }
                  /\ c.nread <= EnvelopeLines
                  /\ c.nread <= Len(L)
                  /\ c.cmd # None =>
                        /\ c.nread = EnvelopeLines
                        /\ c.cmd = Some(Replace(text, L[EnvelopeLines].line))
                  /\ c.resp = << OkLine >> => c.cmd # None
                  /\ c.resp = << ErrAuthLine >> => c.cmd = None
                  /\ c.closed => (c.cmd = None \/ c.resp = << OkLine >>)
        /\ Len(ran) = Cardinality({k \in 1..Len(conns) : conns[k].cmd # None})

\* a peer sent a third line after the envelope: it got one OK, its third
\* line was not read
C19_Witness ==
    /\ op = "direct_listen"
    /\ auth = Some(<< "s" >>)
    /\ \E k \in 1..Len(conns) :
          /\ conns[k].bytes = AuthPrefix \o << "s", LF, "a", LF, "b", LF >>
          /\ conns[k].nread = 2
          /\ conns[k].resp = << OkLine >>
          /\ conns[k].closed
    /\ Len(ran) = 1

\* C20: the 5-second limit of the Relay sender is tested only when the
\* event stream yields an event, and before that event is inspected: the
\* sender reports success only if the outgoing-publish event is yielded at
\* an elapsed time of at most 5 seconds, and an outgoing-publish or error
\* event yielded after the limit is reported as a timeout failure.
C20_TimeoutOrder ==
    op = "relay_send" =>
        /\ report = "sent" =>
              /\ polled # << >>
              /\ Last(polled).kind = "outgoing_publish"
              /\ Last(polled).at <= Timeout
              /\ exit = Some(0)
        /\ report = "error" =>
              polled # << >> /\ Last(polled).kind = "err" /\ Last(polled).at <= Timeout
        /\ report = "timeout" =>
              polled # << >> /\ Last(polled).at > Timeout /\ exit = Some(1)
        /\ \A i \in 1..Len(polled) :
              polled[i].at > Timeout =>
                  i = Len(polled) /\ report = "timeout" /\ exit = Some(1) /\ pc = "exit"
        /\ pc = "polling" => report = "none" /\ exit = None

\* the confirmation was yielded after the limit and reported as a timeout
C20_Witness ==
    /\ op = "relay_send"
    /\ polled # << >>
    /\ Last(polled).kind = "outgoing_publish"
    /\ Last(polled).at > Timeout
    /\ report = "timeout"
    /\ exit = Some(1)

====
